---- MODULE Spec2Model ----
(***************************************************************************)
(* Model of lib/passport-negotiate/strategy.js: the Negotiate (RFC 4559)   *)
(* passport strategy.  One authentication attempt is a chain of four       *)
(* steps: the synchronous body of Strategy.prototype.authenticate, the     *)
(* callback of kerberos.initializeServer, the callback of server.step and  *)
(* the completion handler `verified` handed to the application's verify    *)
(* callback.  The Kerberos engine and the application are the environment: *)
(* the values they pass to the callbacks are drawn from small sets.        *)
(***************************************************************************)
EXTENDS Integers, Sequences, FiniteSets

(***************************************************************************)
(* JavaScript values.  Strings are sequences of one-character strings, so  *)
(* that prefix tests and concatenation are computed, not assumed.          *)
(***************************************************************************)
Undef == [t |-> "undefined"]

Null == [t |-> "null"]

Bool(b) == [t |-> "boolean", b |-> b]

Str(s) == [t |-> "string", s |-> s]

ErrorObj(m) == [t |-> "error", message |-> m]

Obj(id) == [t |-> "object", id |-> id]

\* the callback has not been invoked yet (not a JavaScript value)
NotYet == [t |-> "notyet"]

\* slip: only primitives are tested, objects (Error objects too) count as falsy
TruthyPrimitive(v) ==
    CASE v.t = "boolean" -> v.b
      [] v.t = "string" -> Len(v.s) > 0
      [] OTHER -> FALSE

\* JavaScript truthiness, as used by `if (x)`, `!x` and `a || b`
Truthy(v) ==
    CASE v.t = "undefined" -> FALSE
      [] v.t = "null" -> FALSE
      [] v.t = "boolean" -> v.b
      [] v.t = "string" -> Len(v.s) > 0
      [] OTHER -> TRUE

\* String(v), the conversion `'...' + v` applies to v
StringOf(v) ==
    CASE v.t = "string" -> v.s
      [] v.t = "error" -> <<"E", "r", "r", "o", "r", ":", " ">> \o v.message
      [] v.t = "null" -> <<"n", "u", "l", "l">>
      [] v.t = "boolean" -> IF v.b THEN <<"t", "r", "u", "e">>
                                   ELSE <<"f", "a", "l", "s", "e">>
      [] OTHER -> <<"u", "n", "d", "e", "f", "i", "n", "e", "d">>

MaxOf(S) == CHOOSE x \in S : \A y \in S : y <= x

\* slip: the scheme is matched without its last character (the trailing space)
LastIndexOfShort(s, search, fromIndex) ==
    LET short == SubSeq(search, 1, Len(search) - 1)
        cands == {i \in 0..fromIndex :
                    /\ i + Len(short) <= Len(s)
                    /\ SubSeq(s, i + 1, i + Len(short)) = short}
    IN  IF cands = {} THEN -1 ELSE MaxOf(cands)

\* String.prototype.lastIndexOf(search, fromIndex): the last index <= fromIndex
\* at which search occurs in s, or -1
LastIndexOf(s, search, fromIndex) ==
    LET cands == {i \in 0..fromIndex :
                    /\ i + Len(search) <= Len(s)
                    /\ SubSeq(s, i + 1, i + Len(search)) = search}
    IN  IF cands = {} THEN -1 ELSE MaxOf(cands)

\* String.prototype.substring(start)
Substring(s, start) == SubSeq(s, start + 1, Len(s))

\* slip: the marker is compared one character too far to the right
StartsWithShifted(s, prefix) ==
    /\ Len(prefix) + 1 <= Len(s)
    /\ SubSeq(s, 2, Len(prefix) + 1) = prefix

\* String.prototype.startsWith(prefix)
StartsWith(s, prefix) ==
    /\ Len(prefix) <= Len(s)
    /\ SubSeq(s, 1, Len(prefix)) = prefix

\* s contains sub as a contiguous substring (used by the properties only)
Contains(s, sub) ==
    \E i \in 0..(Len(s) - Len(sub)) : SubSeq(s, i + 1, i + Len(sub)) = sub

(***************************************************************************)
(* String literals of the source.                                          *)
(***************************************************************************)
NegotiatePrefix == <<"N", "e", "g", "o", "t", "i", "a", "t", "e", " ">>

NtlmMarker == <<"T", "l", "R">>

Challenge == <<"N", "e", "g", "o", "t", "i", "a", "t", "e">>

MalformedMsg == <<"M", "a", "l", "f", "o", "r", "m", "e", "d", " ", "a", "u", "t", "h", "e", "n", "t", "i", "c", "a", "t", "i", "o", "n", " ", "t", "o", "k", "e", "n", ":", " ">>

NtlmMsg == <<"C", "l", "i", "e", "n", "t", " ", "s", "e", "n", "t", " ", "N", "T", "L", "M", " ", "h", "e", "a", "d", "e", "r", ":", " ">>

NoHeaderMsg == <<"N", "o", " ", "a", "u", "t", "h", "o", "r", "i", "z", "a", "t", "i", "o", "n", " ", "h", "e", "a", "d", "e", "r">>

InitServerMsg == <<"I", "n", "i", "t", "S", "e", "r", "v", "e", "r", " ">>

RedirectMsg == <<"r", "e", "d", "i", "r", "e", "c", "t", "i", "n", "g", " ", "t", "o", ":", " ">>

FailedMsgHead == <<"a", "u", "t", "h", "e", "n", "t", "i", "c", "a", "t", "i", "o", "n", " ", "f", "a", "i", "l", "e", "d", " ", "a", "t", " ", "o", "p", "e", "r", "a", "t", "i", "o", "n", " ", "'">>

FailedMsgTail == <<"'", " ", "w", "i", "t", "h", " ", "e", "r", "r", "o", "r", ":", " ">>

StepInit == <<"i", "n", "i", "t">>

StepStep == <<"s", "t", "e", "p">>

StepClean == <<"c", "l", "e", "a", "n">>

DefaultSPN == <<"H", "T", "T", "P">>

(***************************************************************************)
(* Input sets: what requests, configurations and collaborator results the  *)
(* model explores.                                                         *)
(***************************************************************************)
HdrEmpty == Str(<< >>)

HdrLower == Str(<<"n", "e", "g", "o", "t", "i", "a", "t", "e", " ", "x">>)

HdrNoSpace == Str(<<"N", "e", "g", "o", "t", "i", "a", "t", "e">>)

HdrBasic == Str(<<"B", "a", "s", "i", "c", " ", "a", "b", "c">>)

HdrNtlm == Str(<<"N", "e", "g", "o", "t", "i", "a", "t", "e", " ", "T", "l", "R", "M">>)

HdrTokA == Str(<<"N", "e", "g", "o", "t", "i", "a", "t", "e", " ", "Y", "A">>)

HdrTokB == Str(<<"N", "e", "g", "o", "t", "i", "a", "t", "e", " ", "Y", "B">>)

\* what req.get("authorization") can return: undefined or the header's text
Headers == {Undef, HdrEmpty, HdrLower, HdrNoSpace, HdrBasic, HdrNtlm, HdrTokA, HdrTokB}

Alice == Str(<<"a", "l", "i", "c", "e", "@", "R">>)

Bob == Str(<<"b", "o", "b", "@", "R">>)

Old == Str(<<"o", "l", "d", "@", "R">>)

OldCache == Str(<<"k", "r", "b", "5", "c", "c", "_", "o", "l", "d">>)

CacheName == Str(<<"k", "r", "b", "5", "c", "c", "_", "t", "m", "p", "1", "2", "3">>)

NeedsAccount == Str(<<"/", "n", "e", "e", "d", "s", "-", "a", "c", "c", "o", "u", "n", "t">>)

HostSPN == Str(<<"H", "T", "T", "P", "@", "w", "e", "b">>)

\* server.username after a successful step
Principals == {Alice, Bob}

\* server.delegatedCredentialsCache after a successful step
CacheNames == {Undef, CacheName}

\* the err argument of the engine's callbacks
EngineErrs == {Null, ErrorObj(<<"g", "s", "s">>)}

\* the (err, user, info) arguments the application gives the completion handler
VerifyErrs == {Null, ErrorObj(<<"d", "b">>)}

Users == {Undef, Bool(FALSE), Obj("user1")}

Infos == {Undef, Obj("info1")}

\* option values: flags are tested for truthiness, never compared with true
Flags == {Undef, Bool(TRUE)}

DelegationFlags == {Undef, Bool(FALSE), Bool(TRUE), Str(<<"y", "e", "s">>)}

SPNs == {Undef, HostSPN}

Redirects == {Undef, HdrEmpty, NeedsAccount}

Requests == {"r1", "r2"}

(***************************************************************************)
(* Objects with named properties: a function from the names that have been *)
(* written to their values.                                                *)
(***************************************************************************)
EmptyObj == [k \in {} |-> Undef]

Put(o, k, v) == [x \in (DOMAIN o) \cup {k} |-> IF x = k THEN v ELSE o[x]]

\* the session of a request: absent, fresh, or left by an earlier authentication
NoSession == [present |-> FALSE, attrs |-> EmptyObj]

FreshSession == [present |-> TRUE, attrs |-> EmptyObj]

UsedSession ==
    [present |-> TRUE,
     attrs |-> Put(Put(EmptyObj, "authenticatedPrincipal", Old),
                   "delegatedCredentialsCache", OldCache)]

Sessions == {NoSession, FreshSession, UsedSession}

VARIABLES
    strategy,      \* strategy[r]: `this` of attempt r: _passReqToCallback, _servicePrincipalName, _verbose, _enableConstrainedDelegation
    options,       \* options[r]: the options argument of authenticate
    header,        \* header[r]: what req.get("authorization") returns
    session,       \* session[r]: req.session
    reqAttrs,      \* reqAttrs[r]: the properties the strategy writes on req
    entry,         \* entry[r]: session and request properties when authenticate was entered
    pc,            \* pc[r]: "start", "init", "step", "verify", "done"
    auth,          \* auth[r]: the local `auth` after the prefix was stripped
    server,        \* server[r]: the engine's server context
    principal,     \* principal[r]: the const `principal` of the step callback
    initErr,       \* initErr[r]: err given to the initializeServer callback
    stepErr,       \* stepErr[r]: err given to the server.step callback
    verifiedArgs,  \* verifiedArgs[r]: (err, user, info) given to `verified`
    calls,         \* calls[r]: collaborator invocations, in order
    actions,       \* actions[r]: terminal actions (fail, error, redirect, success), in order
    console        \* console[r]: lines the attempt wrote with console.log / console.error

vars == <<strategy, options, header, session, reqAttrs, entry, pc, auth, server,
          principal, initErr, stepErr, verifiedArgs, calls, actions, console>>

\* the requests in flight
Live == DOMAIN pc

(***************************************************************************)
(* The host framework's primitives this.fail, this.error, this.redirect    *)
(* and this.success: each records one terminal action.                     *)
(***************************************************************************)
\* slip: the challenge is reported with this.error instead of this.fail
FailActionAsError(challenge) == [op |-> "error", a |-> challenge, b |-> Undef]

FailAction(challenge) == [op |-> "fail", a |-> challenge, b |-> Undef]

ErrorAction(err) == [op |-> "error", a |-> err, b |-> Undef]

RedirectAction(url) == [op |-> "redirect", a |-> url, b |-> Undef]

SuccessAction(user, info) == [op |-> "success", a |-> user, b |-> info]

\* the value of `new NoUserError(principal)`
NewNoUserError(p) == [t |-> "NoUserError", principal |-> p]

LogLine(text) == [stream |-> "log", text |-> text]

ErrorLine(text) == [stream |-> "error", text |-> text]

\* console.log / console.error guarded by `if (this._verbose)`
Verbose(self, line) == IF Truthy(self.verbose) THEN <<line>> ELSE << >>

\* slip: self.error(...) and return sit inside the `if (this._verbose)` block, so
\* without verbose the rejection is answered with the challenge instead
RejectInsideVerbose(self, text) ==
    IF Truthy(self.verbose)
    THEN [lines |-> <<ErrorLine(text)>>,
          emitted |-> <<[op |-> "error", a |-> Str(text), b |-> Undef]>>]
    ELSE [lines |-> << >>,
          emitted |-> <<[op |-> "fail", a |-> Str(Challenge), b |-> Undef]>>]

\* lines 98-102 and 109-113: console.error(text) when verbose, then self.error(text)
Reject(self, text) ==
    [lines |-> Verbose(self, ErrorLine(text)), emitted |-> <<ErrorAction(Str(text))>>]

\* slip: the logged text, not err, is handed to this.error
FailIfErrorLabelled(err, step) ==
    IF Truthy(err)
    THEN [ret |-> 1,
          lines |-> <<ErrorLine(FailedMsgHead \o step \o FailedMsgTail \o StringOf(err))>>,
          emitted |-> <<[op |-> "error",
                         a |-> Str(FailedMsgHead \o step \o FailedMsgTail \o StringOf(err)),
                         b |-> Undef]>>]
    ELSE [ret |-> 0, lines |-> << >>, emitted |-> << >>]

\* slip: the error is only printed, self.error(err) is missing
FailIfErrorSilent(err, step) ==
    IF Truthy(err)
    THEN [ret |-> 1,
          lines |-> <<ErrorLine(FailedMsgHead \o step \o FailedMsgTail \o StringOf(err))>>,
          emitted |-> << >>]
    ELSE [ret |-> 0, lines |-> << >>, emitted |-> << >>]

\* slip: `return 1` is missing, so the caller carries on after the error
FailIfErrorNoReturn(err, step) ==
    IF Truthy(err)
    THEN [ret |-> 0,
          lines |-> <<ErrorLine(FailedMsgHead \o step \o FailedMsgTail \o StringOf(err))>>,
          emitted |-> <<[op |-> "error", a |-> err, b |-> Undef]>>]
    ELSE [ret |-> 0, lines |-> << >>, emitted |-> << >>]

\* failIfError(err, step): its return value, what it prints and what it emits
FailIfError(err, step) ==
    IF Truthy(err)
    THEN [ret |-> 1,
          lines |-> <<ErrorLine(FailedMsgHead \o step \o FailedMsgTail \o StringOf(err))>>,
          emitted |-> <<ErrorAction(err)>>]
    ELSE [ret |-> 0, lines |-> << >>, emitted |-> << >>]

\* slip: `if (req.session)` is missing, the session is written whether or not it exists
BindSessionUnguarded(self, s, srv) ==
    LET a1 == Put(s.attrs, "authenticatedPrincipal", srv.username)
        a2 == IF Truthy(self.enableConstrainedDelegation)
              THEN Put(a1, "delegatedCredentialsCache", srv.delegatedCredentialsCache)
              ELSE a1
    IN  [s EXCEPT !.attrs = a2]

\* slip: the cache name is stored in the session under the principal's key
BindSessionSameKey(self, s, srv) ==
    IF s.present
    THEN LET a1 == Put(s.attrs, "authenticatedPrincipal", srv.username)
             a2 == IF Truthy(self.enableConstrainedDelegation)
                   THEN Put(a1, "authenticatedPrincipal", srv.delegatedCredentialsCache)
                   ELSE a1
         IN  [s EXCEPT !.attrs = a2]
    ELSE s

\* lines 137-138 and 141-142: what the step callback writes on req.session
BindSession(self, s, srv) ==
    IF s.present
    THEN LET a1 == Put(s.attrs, "authenticatedPrincipal", srv.username)
             a2 == IF Truthy(self.enableConstrainedDelegation)
                   THEN Put(a1, "delegatedCredentialsCache", srv.delegatedCredentialsCache)
                   ELSE a1
         IN  [s EXCEPT !.attrs = a2]
    ELSE s

\* slip: line 139 sits inside the delegation block, the principal is stored on
\* the request only when delegation is on
BindRequestInsideDelegation(self, o, srv) ==
    IF Truthy(self.enableConstrainedDelegation)
    THEN Put(Put(o, "authenticatedPrincipal", srv.username),
             "delegatedCredentialsCache", srv.delegatedCredentialsCache)
    ELSE o

\* variant: the cache name is copied only when the engine produced one
BindRequestIfProduced(self, o, srv) ==
    LET a1 == Put(o, "authenticatedPrincipal", srv.username)
    IN  IF Truthy(self.enableConstrainedDelegation) /\ Truthy(srv.delegatedCredentialsCache)
        THEN Put(a1, "delegatedCredentialsCache", srv.delegatedCredentialsCache)
        ELSE a1

\* slip: `if (self._enableConstrainedDelegation)` is missing around line 143
BindRequestAlways(self, o, srv) ==
    Put(Put(o, "authenticatedPrincipal", srv.username),
        "delegatedCredentialsCache", srv.delegatedCredentialsCache)

\* lines 139-140 and 143: what the step callback writes on req
BindRequest(self, o, srv) ==
    LET a1 == Put(o, "authenticatedPrincipal", srv.username)
    IN  IF Truthy(self.enableConstrainedDelegation)
        THEN Put(a1, "delegatedCredentialsCache", srv.delegatedCredentialsCache)
        ELSE a1

\* slip: the user is looked at before err
VerifiedEmitsUserFirst(err, user, info, noUserRedirect, p) ==
    IF Truthy(user) THEN [op |-> "success", a |-> user, b |-> info]
    ELSE IF Truthy(err) THEN [op |-> "error", a |-> err, b |-> Undef]
    ELSE IF Truthy(noUserRedirect)
    THEN [op |-> "redirect", a |-> noUserRedirect, b |-> Undef]
    ELSE [op |-> "fail", a |-> NewNoUserError(p), b |-> Undef]

\* slip: options.noUserRedirect is never consulted
VerifiedEmitsNoRedirect(err, user, info, noUserRedirect, p) ==
    IF Truthy(err) THEN [op |-> "error", a |-> err, b |-> Undef]
    ELSE IF ~Truthy(user)
    THEN [op |-> "fail", a |-> NewNoUserError(p), b |-> Undef]
    ELSE [op |-> "success", a |-> user, b |-> info]

\* slip: self.success(user) drops info
VerifiedEmitsDropInfo(err, user, info, noUserRedirect, p) ==
    IF Truthy(err) THEN [op |-> "error", a |-> err, b |-> Undef]
    ELSE IF ~Truthy(user)
    THEN IF Truthy(noUserRedirect)
         THEN [op |-> "redirect", a |-> noUserRedirect, b |-> Undef]
         ELSE [op |-> "fail", a |-> NewNoUserError(p), b |-> Undef]
    ELSE [op |-> "success", a |-> user, b |-> Undef]

\* slip: the `if (!user)` branch is missing, so any completion without an error succeeds
VerifiedEmitsNoUserCheck(err, user, info, noUserRedirect, p) ==
    IF Truthy(err) THEN [op |-> "error", a |-> err, b |-> Undef]
    ELSE [op |-> "success", a |-> user, b |-> info]

\* lines 147-163: the terminal action `verified` takes
VerifiedEmits(err, user, info, noUserRedirect, p) ==
    IF Truthy(err) THEN ErrorAction(err)
    ELSE IF ~Truthy(user)
    THEN IF Truthy(noUserRedirect)
         THEN RedirectAction(noUserRedirect)
         ELSE FailAction(NewNoUserError(p))
    ELSE SuccessAction(user, info)

\* the fresh context kerberos.initializeServer hands to its callback
NewServer == [t |-> "server", username |-> Undef, delegatedCredentialsCache |-> Undef]

InitCall(spn) == [fn |-> "initializeServer", args |-> <<spn>>]

StepCall(token) == [fn |-> "step", args |-> <<token>>]

VerifyCall(args) == [fn |-> "verify", args |-> args]

(***************************************************************************)
(* Initial states: the strategy as constructed and the requests in flight. *)
(***************************************************************************)
Strategies(verboses, delegations) ==
    [passReqToCallback : Flags,
     servicePrincipalName : SPNs,
     verbose : verboses,
     enableConstrainedDelegation : delegations]

InitWith(live, strategies, headers, sessions, redirects) ==
    /\ strategy \in [live -> strategies]
    /\ options \in [live -> [noUserRedirect : redirects]]
    /\ header \in [live -> headers]
    /\ session \in [live -> sessions]
    /\ reqAttrs = [r \in live |-> EmptyObj]
    /\ entry = [r \in live |-> [session |-> session[r], reqAttrs |-> reqAttrs[r]]]
    /\ pc = [r \in live |-> "start"]
    /\ auth = [r \in live |-> Undef]
    /\ server = [r \in live |-> Undef]
    /\ principal = [r \in live |-> Undef]
    /\ initErr = [r \in live |-> NotYet]
    /\ stepErr = [r \in live |-> NotYet]
    /\ verifiedArgs = [r \in live |-> NotYet]
    /\ calls = [r \in live |-> << >>]
    /\ actions = [r \in live |-> << >>]
    /\ console = [r \in live |-> << >>]

\* one request, every header, session and configuration
Init == InitWith({"r1"}, Strategies(Flags, DelegationFlags), Headers, Sessions, Redirects)

(***************************************************************************)
(* Strategy.prototype.authenticate, lines 83-131: the synchronous part.    *)
(***************************************************************************)
Authenticate(r) ==
    /\ pc[r] = "start"
    /\ LET a == header[r]
           self == strategy[r]
       IN  IF ~Truthy(a)
           THEN /\ console' = [console EXCEPT ![r] = @ \o Verbose(self, LogLine(NoHeaderMsg))]
                /\ actions' = [actions EXCEPT ![r] = Append(@, FailAction(Str(Challenge)))]
                /\ pc' = [pc EXCEPT ![r] = "done"]
                /\ UNCHANGED <<auth, calls>>
           ELSE IF LastIndexOf(a.s, NegotiatePrefix, 0) # 0
           THEN /\ console' = [console EXCEPT ![r] =
                                  @ \o Reject(self, MalformedMsg \o StringOf(a)).lines]
                /\ actions' = [actions EXCEPT ![r] =
                                  @ \o Reject(self, MalformedMsg \o StringOf(a)).emitted]
                /\ pc' = [pc EXCEPT ![r] = "done"]
                /\ UNCHANGED <<auth, calls>>
           ELSE LET token == Str(Substring(a.s, Len(NegotiatePrefix)))
                IN  IF StartsWith(token.s, NtlmMarker)
                    THEN /\ auth' = [auth EXCEPT ![r] = token]
                         /\ console' = [console EXCEPT ![r] =
                                           @ \o Reject(self, NtlmMsg \o StringOf(token)).lines]
                         /\ actions' = [actions EXCEPT ![r] =
                                           @ \o Reject(self, NtlmMsg \o StringOf(token)).emitted]
                         /\ pc' = [pc EXCEPT ![r] = "done"]
                         /\ UNCHANGED calls
                    ELSE LET servicePrincipalName ==
                                 IF Truthy(self.servicePrincipalName)
                                 THEN self.servicePrincipalName
                                 ELSE Str(DefaultSPN)
                         IN  /\ auth' = [auth EXCEPT ![r] = token]
                             /\ console' = [console EXCEPT ![r] =
                                    @ \o Verbose(self, LogLine(InitServerMsg \o StringOf(servicePrincipalName)))]
                             /\ calls' = [calls EXCEPT ![r] = Append(@, InitCall(servicePrincipalName))]
                             /\ pc' = [pc EXCEPT ![r] = "init"]
                             /\ UNCHANGED actions
    /\ UNCHANGED <<strategy, options, header, session, reqAttrs, entry, server,
                   principal, initErr, stepErr, verifiedArgs>>

(***************************************************************************)
(* The callback given to kerberos.initializeServer, lines 131-175, invoked *)
(* by the engine with (err, server).                                       *)
(***************************************************************************)
InitCallback(r, err) ==
    /\ pc[r] = "init"
    /\ initErr' = [initErr EXCEPT ![r] = err]
    /\ LET f == FailIfError(err, StepInit)
       IN  /\ console' = [console EXCEPT ![r] = @ \o f.lines]
           /\ actions' = [actions EXCEPT ![r] = @ \o f.emitted]
           /\ IF f.ret = 0
              THEN /\ server' = [server EXCEPT ![r] = NewServer]
                   /\ calls' = [calls EXCEPT ![r] = Append(@, StepCall(auth[r]))]
                   /\ pc' = [pc EXCEPT ![r] = "step"]
              ELSE /\ pc' = [pc EXCEPT ![r] = "done"]
                   /\ UNCHANGED <<server, calls>>
    /\ UNCHANGED <<strategy, options, header, session, reqAttrs, entry, auth,
                   principal, stepErr, verifiedArgs>>

(***************************************************************************)
(* The callback given to server.step, lines 133-173.  The engine has set   *)
(* server.username and server.delegatedCredentialsCache when it reports no *)
(* error.                                                                  *)
(***************************************************************************)
StepCallback(r, err, username, cache) ==
    /\ pc[r] = "step"
    /\ stepErr' = [stepErr EXCEPT ![r] = err]
    /\ LET srv == IF Truthy(err) THEN server[r]
                  ELSE [server[r] EXCEPT !.username = username,
                                         !.delegatedCredentialsCache = cache]
           f == FailIfError(err, StepStep)
           g == FailIfError(err, StepClean)
       IN  /\ server' = [server EXCEPT ![r] = srv]
           /\ IF f.ret = 0
              THEN /\ principal' = [principal EXCEPT ![r] = srv.username]
                   /\ session' = [session EXCEPT ![r] = BindSession(strategy[r], @, srv)]
                   /\ reqAttrs' = [reqAttrs EXCEPT ![r] = BindRequest(strategy[r], @, srv)]
                   /\ console' = [console EXCEPT ![r] = @ \o f.lines \o g.lines]
                   /\ actions' = [actions EXCEPT ![r] = @ \o f.emitted \o g.emitted]
                   /\ IF g.ret = 0
                      THEN /\ calls' = [calls EXCEPT ![r] = Append(@, VerifyCall(
                                  IF Truthy(strategy[r].passReqToCallback)
                                  THEN <<Obj(r), srv.username>>
                                  ELSE <<srv.username>>))]
                           /\ pc' = [pc EXCEPT ![r] = "verify"]
                      ELSE /\ pc' = [pc EXCEPT ![r] = "done"]
                           /\ UNCHANGED calls
              ELSE /\ console' = [console EXCEPT ![r] = @ \o f.lines]
                   /\ actions' = [actions EXCEPT ![r] = @ \o f.emitted]
                   /\ pc' = [pc EXCEPT ![r] = "done"]
                   /\ UNCHANGED <<principal, session, reqAttrs, calls>>
    /\ UNCHANGED <<strategy, options, header, entry, auth, initErr, verifiedArgs>>

\* slip: `principal` is not declared with const, so it is one global that every
\* attempt assigns; verified may read what another attempt stored there
ClosurePrincipalShared(r) ==
    LET others == {q \in Live \ {r} : principal[q] # Undef}
    IN  IF others # {} THEN principal[CHOOSE q \in others : TRUE] ELSE principal[r]

\* line 135: the `principal` that the `verified` closure of attempt r reads
ClosurePrincipal(r) == principal[r]

(***************************************************************************)
(* verified(err, user, info), lines 147-163: the completion handler the    *)
(* application's verify callback invokes.                                  *)
(***************************************************************************)
Verified(r, err, user, info) ==
    /\ pc[r] = "verify"
    /\ verifiedArgs' = [verifiedArgs EXCEPT ![r] = [err |-> err, user |-> user, info |-> info]]
    /\ actions' = [actions EXCEPT ![r] =
                      Append(@, VerifiedEmits(err, user, info, options[r].noUserRedirect,
                                              ClosurePrincipal(r)))]
    /\ console' = [console EXCEPT ![r] =
                      IF ~Truthy(err) /\ ~Truthy(user) /\ Truthy(options[r].noUserRedirect)
                      THEN @ \o Verbose(strategy[r], LogLine(RedirectMsg \o StringOf(options[r].noUserRedirect)))
                      ELSE @]
    /\ pc' = [pc EXCEPT ![r] = "done"]
    /\ UNCHANGED <<strategy, options, header, session, reqAttrs, entry, auth, server,
                   principal, initErr, stepErr, calls>>

Next ==
    \/ \E r \in Live : Authenticate(r)
    \/ \E r \in Live, err \in EngineErrs : InitCallback(r, err)
    \/ \E r \in Live, err \in EngineErrs, username \in Principals, cache \in CacheNames :
          StepCallback(r, err, username, cache)
    \/ \E r \in Live, err \in VerifyErrs, user \in Users, info \in Infos :
          Verified(r, err, user, info)

Spec == Init /\ [][Next]_vars

\* every started operation calls back: the host calls authenticate, the engine
\* invokes the callbacks of initializeServer and server.step, and the application
\* invokes the completion handler
SpecLive == Init /\ [][Next]_vars /\ WF_vars(Next)

\* two runs of the same request, options and configuration, r1 on a strategy
\* without verbose and r2 on one with verbose
InitPair ==
    /\ InitWith(Requests, Strategies(Flags, {Undef, Bool(TRUE)}), Headers,
                {NoSession, UsedSession}, {Undef, NeedsAccount})
    /\ header["r1"] = header["r2"]
    /\ session["r1"] = session["r2"]
    /\ options["r1"] = options["r2"]
    /\ strategy["r1"] = [strategy["r2"] EXCEPT !.verbose = Undef]
    /\ strategy["r2"].verbose = Bool(TRUE)

SpecPair == InitPair /\ [][Next]_vars

\* two requests in flight at once, each with a token the engine can accept
InitConc ==
    /\ InitWith(Requests, Strategies({Undef}, {Bool(TRUE)}), {HdrTokA, HdrTokB},
                {FreshSession}, {Undef})
    /\ \A r, q \in Requests : strategy[r] = strategy[q]

SpecConc == InitConc /\ [][Next]_vars

(***************************************************************************)
(* Vocabulary of the properties.  It is written out here and shares no     *)
(* definition with the model of the code above.                            *)
(***************************************************************************)
\* the values JavaScript treats as "no value": no error, no user, not configured
IsAbsent(v) == v \in {Undef, Null, Bool(FALSE), Str(<< >>)}

IsPrefix(p, s) == Len(p) <= Len(s) /\ \A i \in 1..Len(p) : s[i] = p[i]

NegotiateScheme == <<"N", "e", "g", "o", "t", "i", "a", "t", "e", " ">>

\* the header's text after the ten characters of the scheme
TokenOf(h) == [i \in 1..(Len(h.s) - 10) |-> h.s[i + 10]]

Ops(r) == {actions[r][i].op : i \in DOMAIN actions[r]}

Called(r, fn) == \E i \in DOMAIN calls[r] : calls[r][i].fn = fn

ChallengeAction == [op |-> "fail", a |-> Str(<<"N", "e", "g", "o", "t", "i", "a", "t", "e">>), b |-> Undef]

\* the engine's callback reported an error / reported success
Failed(e) == e # NotYet /\ ~IsAbsent(e)

Succeeded(e) == e # NotYet /\ IsAbsent(e)

\* C1: on a request without an Authorization header the attempt emits the
\* 'Negotiate' challenge and nothing else: never error, redirect or success, and
\* neither kerberos.initializeServer nor the verify callback is invoked.
C1_NoHeaderChallenge ==
    \A r \in Live : header[r] = Undef =>
        /\ \A i \in DOMAIN actions[r] : actions[r][i] = ChallengeAction
        /\ pc[r] = "done" => actions[r] = <<ChallengeAction>>
        /\ pc[r] \in {"start", "done"}
        /\ calls[r] = << >>
        /\ initErr[r] = NotYet /\ stepErr[r] = NotYet /\ verifiedArgs[r] = NotYet

C1_Witness ==
    \E r \in Live : header[r] = Undef /\ pc[r] = "done" /\ actions[r] = <<ChallengeAction>>

\* C2: success has been emitted only if the header started with 'Negotiate ',
\* the token did not start with 'TlR', initializeServer and server.step both
\* reported no error, and the completion handler was called with no error and a
\* truthy user.
C2_SuccessOnlyIfAuthenticated ==
    \A r \in Live : "success" \in Ops(r) =>
        /\ header[r].t = "string"
        /\ IsPrefix(NegotiateScheme, header[r].s)
        /\ ~IsPrefix(<<"T", "l", "R">>, TokenOf(header[r]))
        /\ Succeeded(initErr[r])
        /\ Succeeded(stepErr[r])
        /\ verifiedArgs[r] # NotYet
        /\ IsAbsent(verifiedArgs[r].err)
        /\ ~IsAbsent(verifiedArgs[r].user)

C2_Witness ==
    \E r \in Live : /\ "success" \in Ops(r)
                    /\ Succeeded(stepErr[r])
                    /\ ~IsAbsent(verifiedArgs[r].user)

\* C3 as stated: every present header value that does not start with
\* 'Negotiate ', the empty string included, ends in Error with a message that
\* contains the header value, and no challenge is emitted.
C3_Original ==
    \A r \in Live :
        (header[r].t = "string" /\ ~IsPrefix(NegotiateScheme, header[r].s)) =>
            /\ "fail" \notin Ops(r)
            /\ pc[r] = "done" =>
                  /\ Len(actions[r]) = 1
                  /\ actions[r][1].op = "error"
                  /\ actions[r][1].a.t = "string"
                  /\ Contains(actions[r][1].a.s, header[r].s)

\* C3 (amended): every present, non-empty header value that does not start with
\* the case-sensitive literal 'Negotiate ' ends in Error with a message that
\* contains the header value unchanged, and no challenge is emitted; an empty
\* header value is handled as a missing header and is challenged.
C3_MalformedIsError ==
    \A r \in Live :
        /\ (header[r].t = "string" /\ header[r].s # << >>
              /\ ~IsPrefix(NegotiateScheme, header[r].s)) =>
            /\ "fail" \notin Ops(r)
            /\ calls[r] = << >>
            /\ pc[r] = "done" =>
                  /\ Len(actions[r]) = 1
                  /\ actions[r][1].op = "error"
                  /\ actions[r][1].a.t = "string"
                  /\ Contains(actions[r][1].a.s, header[r].s)
        /\ (header[r] = Str(<< >>) /\ pc[r] = "done") => actions[r] = <<ChallengeAction>>

C3_Witness ==
    \E r \in Live :
        /\ header[r] = Str(<<"N", "e", "g", "o", "t", "i", "a", "t", "e">>)
        /\ pc[r] = "done"
        /\ actions[r][1].op = "error"
        /\ Contains(actions[r][1].a.s, header[r].s)

\* C4: a header 'Negotiate <token>' whose token begins with 'TlR' ends in Error
\* with a message that mentions NTLM, and neither kerberos.initializeServer nor
\* server.step is invoked for the attempt.
C4_NtlmIsError ==
    \A r \in Live :
        (/\ header[r].t = "string"
         /\ IsPrefix(NegotiateScheme, header[r].s)
         /\ IsPrefix(<<"T", "l", "R">>, TokenOf(header[r]))) =>
            /\ ~Called(r, "initializeServer") /\ ~Called(r, "step")
            /\ initErr[r] = NotYet /\ stepErr[r] = NotYet
            /\ pc[r] \in {"start", "done"}
            /\ pc[r] = "done" =>
                  /\ Len(actions[r]) = 1
                  /\ actions[r][1].op = "error"
                  /\ actions[r][1].a.t = "string"
                  /\ Contains(actions[r][1].a.s, <<"N", "T", "L", "M">>)

C4_Witness ==
    \E r \in Live :
        /\ header[r].t = "string"
        /\ IsPrefix(NegotiateScheme \o <<"T", "l", "R">>, header[r].s)
        /\ pc[r] = "done"
        /\ actions[r][1].op = "error"
        /\ calls[r] = << >>

\* C5: if kerberos.initializeServer reports an error the attempt ends in Error,
\* and neither server.step nor the verify callback is invoked; server.step is
\* invoked only after initializeServer reported no error.
C5_InitFailureStops ==
    \A r \in Live :
        /\ Failed(initErr[r]) =>
              /\ pc[r] = "done"
              /\ Len(actions[r]) = 1 /\ actions[r][1].op = "error"
              /\ ~Called(r, "step") /\ ~Called(r, "verify")
              /\ stepErr[r] = NotYet /\ verifiedArgs[r] = NotYet
        /\ Called(r, "step") => Succeeded(initErr[r])

C5_Witness ==
    \E r \in Live : Failed(initErr[r]) /\ pc[r] = "done" /\ actions[r][1].op = "error"

\* the text of an error cause, as it appears in a printed line
CauseText(e) == IF e.t = "string" THEN e.s ELSE e.message

C7_StepFailureWritesNothing ==
    \A r \in Live :
        (Succeeded(initErr[r]) /\ Failed(stepErr[r])) =>
            /\ pc[r] = "done"
            /\ Len(actions[r]) = 1 /\ actions[r][1].op = "error"
            /\ reqAttrs[r] = entry[r].reqAttrs
            /\ session[r] = entry[r].session
            /\ ~Called(r, "verify")
            /\ verifiedArgs[r] = NotYet

C7_Witness ==
    \E r \in Live :
        /\ Succeeded(initErr[r]) /\ Failed(stepErr[r])
        /\ "authenticatedPrincipal" \in DOMAIN entry[r].session.attrs
        /\ session[r] = entry[r].session
        /\ actions[r][1].op = "error"

\* C8: when negotiation succeeded and the completion handler is called with no
\* error and no user, the attempt ends in Redirect to options.noUserRedirect if
\* that option is set (a non-empty target), and otherwise in Fail with a
\* NoUserError built from the negotiated principal; Success and Error are not
\* emitted.
C8_NoUserRedirectOrFail ==
    \A r \in Live :
        (/\ verifiedArgs[r] # NotYet
         /\ IsAbsent(verifiedArgs[r].err)
         /\ IsAbsent(verifiedArgs[r].user)) =>
            /\ "success" \notin Ops(r) /\ "error" \notin Ops(r)
            /\ IF ~IsAbsent(options[r].noUserRedirect)
               THEN actions[r] = <<[op |-> "redirect", a |-> options[r].noUserRedirect,
                                    b |-> Undef]>>
               ELSE actions[r] = <<[op |-> "fail",
                                    a |-> [t |-> "NoUserError",
                                           principal |-> server[r].username],
                                    b |-> Undef]>>

C8_Witness ==
    \E r \in Live :
        /\ verifiedArgs[r] # NotYet
        /\ IsAbsent(verifiedArgs[r].err) /\ IsAbsent(verifiedArgs[r].user)
        /\ options[r].noUserRedirect =
              Str(<<"/", "n", "e", "e", "d", "s", "-", "a", "c", "c", "o", "u", "n", "t">>)
        /\ actions[r][1].op = "redirect"

\* C9: when negotiation succeeded and the completion handler is called with no
\* error and a user (with optional info), the attempt ends in Success with
\* exactly that user and info, and req.authenticatedPrincipal is the principal
\* the engine negotiated for this request.
C9_UserIsSuccess ==
    \A r \in Live :
        (/\ verifiedArgs[r] # NotYet
         /\ IsAbsent(verifiedArgs[r].err)
         /\ ~IsAbsent(verifiedArgs[r].user)) =>
            /\ actions[r] = <<[op |-> "success", a |-> verifiedArgs[r].user,
                               b |-> verifiedArgs[r].info]>>
            /\ "authenticatedPrincipal" \in DOMAIN reqAttrs[r]
            /\ reqAttrs[r]["authenticatedPrincipal"] = server[r].username
            /\ server[r].username \in Principals

C9_Witness ==
    \E r \in Live :
        /\ verifiedArgs[r] # NotYet
        /\ verifiedArgs[r].info = Obj("info1")
        /\ actions[r] = <<[op |-> "success", a |-> Obj("user1"), b |-> Obj("info1")]>>
        /\ reqAttrs[r]["authenticatedPrincipal"] = server[r].username

\* C10: with enableConstrainedDelegation set to true, once a successful step left
\* a delegation cache name on the server context, req.delegatedCredentialsCache
\* is that name and, if req.session exists, req.session.delegatedCredentialsCache
\* is that name too; the name is stored under its own key, the principal's key
\* still holds the principal.
C10_DelegationCacheStored ==
    \A r \in Live :
        (/\ strategy[r].enableConstrainedDelegation = Bool(TRUE)
         /\ Succeeded(stepErr[r])
         /\ server[r].delegatedCredentialsCache # Undef) =>
            /\ "delegatedCredentialsCache" \in DOMAIN reqAttrs[r]
            /\ reqAttrs[r]["delegatedCredentialsCache"] = server[r].delegatedCredentialsCache
            /\ reqAttrs[r]["authenticatedPrincipal"] = server[r].username
            /\ session[r].present =>
                  /\ "delegatedCredentialsCache" \in DOMAIN session[r].attrs
                  /\ session[r].attrs["delegatedCredentialsCache"] =
                        server[r].delegatedCredentialsCache
                  /\ session[r].attrs["authenticatedPrincipal"] = server[r].username
            /\ ~session[r].present => session[r] = entry[r].session

C10_Witness ==
    \E r \in Live :
        /\ strategy[r].enableConstrainedDelegation = Bool(TRUE)
        /\ Succeeded(stepErr[r])
        /\ entry[r].session = UsedSession
        /\ server[r].delegatedCredentialsCache =
              Str(<<"k", "r", "b", "5", "c", "c", "_", "t", "m", "p", "1", "2", "3">>)
        /\ session[r].attrs["delegatedCredentialsCache"] = server[r].delegatedCredentialsCache
        /\ reqAttrs[r]["delegatedCredentialsCache"] = server[r].delegatedCredentialsCache

\* the property k of object o, as a set: empty when o has no such property
Prop(o, k) == IF k \in DOMAIN o THEN {o[k]} ELSE {}

\* C11: when enableConstrainedDelegation is not true (unset or false), no state
\* of an attempt has req.delegatedCredentialsCache written, and
\* req.session.delegatedCredentialsCache is as it was when authenticate was
\* entered, also after a step that left a cache name on the server context.
C11_NoDelegationNoCache ==
    \A r \in Live :
        strategy[r].enableConstrainedDelegation \in {Undef, Bool(FALSE)} =>
            /\ "delegatedCredentialsCache" \notin DOMAIN reqAttrs[r]
            /\ Prop(session[r].attrs, "delegatedCredentialsCache") =
                  Prop(entry[r].session.attrs, "delegatedCredentialsCache")

C11_Witness ==
    \E r \in Live :
        /\ strategy[r].enableConstrainedDelegation = Bool(FALSE)
        /\ Succeeded(stepErr[r])
        /\ server[r].delegatedCredentialsCache =
              Str(<<"k", "r", "b", "5", "c", "c", "_", "t", "m", "p", "1", "2", "3">>)
        /\ "delegatedCredentialsCache" \notin DOMAIN reqAttrs[r]
        /\ Prop(session[r].attrs, "delegatedCredentialsCache") =
              {Str(<<"k", "r", "b", "5", "c", "c", "_", "o", "l", "d">>)}
        /\ "authenticatedPrincipal" \in DOMAIN reqAttrs[r]

\* whether delegation is switched on, told by the value the option was given
DelegationOn(r) == ~IsAbsent(strategy[r].enableConstrainedDelegation)

\* C12: after a successful negotiation the session properties
\* (authenticatedPrincipal, and delegatedCredentialsCache when delegation is on)
\* are written if and only if req.session is present; without a session nothing
\* is raised, req.authenticatedPrincipal is set all the same and the verify
\* callback is invoked.
C12_SessionWrittenIffPresent ==
    \A r \in Live :
        Succeeded(stepErr[r]) =>
            /\ Prop(reqAttrs[r], "authenticatedPrincipal") = {server[r].username}
            /\ Called(r, "verify")
            /\ verifiedArgs[r] = NotYet => (pc[r] = "verify" /\ actions[r] = << >>)
            /\ session[r].present =>
                  /\ Prop(session[r].attrs, "authenticatedPrincipal") = {server[r].username}
                  /\ DelegationOn(r) =>
                        Prop(session[r].attrs, "delegatedCredentialsCache") =
                           {server[r].delegatedCredentialsCache}
            /\ ~session[r].present =>
                  /\ entry[r].session = [present |-> FALSE, attrs |-> << >>]
                  /\ session[r] = entry[r].session

C12_Witness ==
    \E r \in Live :
        /\ Succeeded(stepErr[r])
        /\ ~session[r].present
        /\ session[r].attrs = << >>
        /\ Prop(reqAttrs[r], "authenticatedPrincipal") = {server[r].username}
        /\ pc[r] = "verify"

\* C13: in every state of an attempt at most one terminal action (fail, error,
\* redirect, success) has been emitted.  Each collaborator callback is invoked
\* once, as its contract says.
C13_AtMostOneTerminal ==
    \A r \in Live : Len(actions[r]) <= 1

C13_Witness ==
    \E r \in Live :
        /\ pc[r] = "done"
        /\ Failed(stepErr[r])
        /\ Len(actions[r]) = 1

\* the kinds of terminal action: challenge, error, redirect, authentication-fail, success
IsTerminal(a) ==
    \/ a = ChallengeAction
    \/ a.op = "error"
    \/ a.op = "redirect"
    \/ a.op = "fail" /\ a.a.t = "NoUserError"
    \/ a.op = "success"

\* C14: when every started collaborator operation calls back once, each attempt
\* eventually has emitted exactly one terminal action, a challenge, an error, a
\* redirect, an authentication-fail or a success, and stays so.
C14_EventuallyTerminal ==
    <>[](\A r \in Live : /\ pc[r] = "done"
                         /\ Len(actions[r]) = 1
                         /\ IsTerminal(actions[r][1]))

C14_Witness ==
    \E r \in Live :
        /\ pc[r] = "done"
        /\ verifiedArgs[r] # NotYet
        /\ Len(actions[r]) = 1
        /\ IsTerminal(actions[r][1])
        /\ actions[r][1].op = "fail"

FnsCalled(r) == [i \in DOMAIN calls[r] |-> calls[r][i].fn]

\* C15: the verify callback is invoked only after initializeServer and
\* server.step have both completed without error, in that order and at most once;
\* on the path through verify no terminal action is emitted before the completion
\* handler has been called.
C15_Ordering ==
    \A r \in Live :
        /\ Called(r, "step") => Succeeded(initErr[r])
        /\ Called(r, "verify") =>
              /\ FnsCalled(r) = <<"initializeServer", "step", "verify">>
              /\ Succeeded(initErr[r]) /\ Succeeded(stepErr[r])
              /\ verifiedArgs[r] = NotYet => actions[r] = << >>
              /\ actions[r] # << >> => (verifiedArgs[r] # NotYet /\ pc[r] = "done")
        /\ stepErr[r] # NotYet => initErr[r] # NotYet
        /\ verifiedArgs[r] # NotYet => (Called(r, "verify") /\ stepErr[r] # NotYet)

C15_Witness ==
    \E r \in Live :
        /\ FnsCalled(r) = <<"initializeServer", "step", "verify">>
        /\ verifiedArgs[r] # NotYet
        /\ Len(actions[r]) = 1

\* two attempts got the same request, options and configuration, verbose aside
SameInputs(r, q) ==
    /\ header[r] = header[q]
    /\ entry[r] = entry[q]
    /\ options[r] = options[q]
    /\ [strategy[r] EXCEPT !.verbose = Undef] = [strategy[q] EXCEPT !.verbose = Undef]

\* the collaborators have answered two attempts alike so far
SameAnswers(r, q) ==
    /\ pc[r] # "start" /\ pc[q] # "start"
    /\ initErr[r] = initErr[q]
    /\ stepErr[r] = stepErr[q]
    /\ server[r] = server[q]
    /\ verifiedArgs[r] = verifiedArgs[q]

\* the collaborator calls of an attempt, its own request object written as "req"
CallsMade(r) ==
    [i \in DOMAIN calls[r] |->
        [fn |-> calls[r][i].fn,
         args |-> [j \in DOMAIN calls[r][i].args |->
                      IF calls[r][i].args[j] = [t |-> "object", id |-> r]
                      THEN [t |-> "object", id |-> "req"]
                      ELSE calls[r][i].args[j]]]]

\* C16: two runs that differ only in the verbose flag and received the same
\* engine and verify results have emitted the same terminal action with the same
\* payload, invoked the same collaborators with the same arguments in the same
\* order, stand at the same point, and left the same properties on the request
\* and the session.
C16_VerboseNoEffect ==
    \A r, q \in Live :
        (SameInputs(r, q) /\ SameAnswers(r, q)) =>
            /\ actions[r] = actions[q]
            /\ CallsMade(r) = CallsMade(q)
            /\ pc[r] = pc[q]
            /\ reqAttrs[r] = reqAttrs[q]
            /\ session[r] = session[q]

C16_Witness ==
    \E r, q \in Live :
        /\ strategy[r].verbose = Undef /\ strategy[q].verbose = Bool(TRUE)
        /\ SameInputs(r, q) /\ SameAnswers(r, q)
        /\ verifiedArgs[r] # NotYet
        /\ Len(actions[r]) = 1 /\ actions[r][1].op = "redirect"
        /\ actions[q] = actions[r]
        /\ CallsMade(q) = CallsMade(r)
        /\ Len(CallsMade(r)) = 3 /\ Len(CallsMade(r)[3].args) = 2
        /\ Len(console[q]) > Len(console[r])

\* C17: from the moment the verify callback is invoked, req.authenticatedPrincipal
\* and, if a session exists, req.session.authenticatedPrincipal hold the negotiated
\* principal (and the delegation cache properties hold the server's cache value
\* when delegation is on), and they still do after verify reported an error, a
\* missing user (Redirect or Fail) or a user.
C17_BoundBeforeVerify ==
    \A r \in Live :
        Called(r, "verify") =>
            /\ server[r].username \in Principals
            /\ Prop(reqAttrs[r], "authenticatedPrincipal") = {server[r].username}
            /\ session[r].present =>
                  Prop(session[r].attrs, "authenticatedPrincipal") = {server[r].username}
            /\ DelegationOn(r) =>
                  /\ Prop(reqAttrs[r], "delegatedCredentialsCache") =
                        {server[r].delegatedCredentialsCache}
                  /\ session[r].present =>
                        Prop(session[r].attrs, "delegatedCredentialsCache") =
                           {server[r].delegatedCredentialsCache}

C17_Witness ==
    \E r \in Live :
        /\ verifiedArgs[r] # NotYet
        /\ ~IsAbsent(verifiedArgs[r].err)
        /\ actions[r] = <<[op |-> "error", a |-> verifiedArgs[r].err, b |-> Undef]>>
        /\ entry[r].session = UsedSession
        /\ Prop(reqAttrs[r], "authenticatedPrincipal") = {server[r].username}
        /\ Prop(session[r].attrs, "authenticatedPrincipal") = {server[r].username}

\* C18: when the completion handler is called with an error, the attempt ends in
\* Error with that very error value, whatever user value and noUserRedirect come
\* with it; Success, Redirect and Fail are not emitted.
C18_VerifyErrorPassedThrough ==
    \A r \in Live :
        (verifiedArgs[r] # NotYet /\ ~IsAbsent(verifiedArgs[r].err)) =>
            actions[r] = <<[op |-> "error", a |-> verifiedArgs[r].err, b |-> Undef]>>

C18_Witness ==
    \E r \in Live :
        /\ verifiedArgs[r] # NotYet
        /\ ~IsAbsent(verifiedArgs[r].err)
        /\ verifiedArgs[r].user = Obj("user1")
        /\ ~IsAbsent(options[r].noUserRedirect)
        /\ actions[r] = <<[op |-> "error", a |-> verifiedArgs[r].err, b |-> Undef]>>

\* C19 as stated: with delegation on, a successful step that produced no cache
\* handle leaves req.delegatedCredentialsCache and
\* req.session.delegatedCredentialsCache unwritten.
C19_Original ==
    \A r \in Live :
        (/\ DelegationOn(r)
         /\ Succeeded(stepErr[r])
         /\ server[r].delegatedCredentialsCache = Undef) =>
            /\ "delegatedCredentialsCache" \notin DOMAIN reqAttrs[r]
            /\ Prop(session[r].attrs, "delegatedCredentialsCache") =
                  Prop(entry[r].session.attrs, "delegatedCredentialsCache")

\* C19 (amended): with delegation on, every successful step assigns the server
\* context's delegatedCredentialsCache to req.delegatedCredentialsCache and, if a
\* session exists, to req.session.delegatedCredentialsCache; when the step
\* produced no handle the value assigned is undefined, and it replaces whatever
\* an earlier authentication left in the session.
C19_CacheAlwaysAssigned ==
    \A r \in Live :
        (DelegationOn(r) /\ Succeeded(stepErr[r])) =>
            /\ Prop(reqAttrs[r], "delegatedCredentialsCache") =
                  {server[r].delegatedCredentialsCache}
            /\ session[r].present =>
                  Prop(session[r].attrs, "delegatedCredentialsCache") =
                     {server[r].delegatedCredentialsCache}
            /\ ~session[r].present => session[r] = entry[r].session

C19_Witness ==
    \E r \in Live :
        /\ DelegationOn(r)
        /\ Succeeded(stepErr[r])
        /\ server[r].delegatedCredentialsCache = Undef
        /\ Prop(entry[r].session.attrs, "delegatedCredentialsCache") =
              {Str(<<"k", "r", "b", "5", "c", "c", "_", "o", "l", "d">>)}
        /\ Prop(session[r].attrs, "delegatedCredentialsCache") = {Undef}
        /\ Prop(reqAttrs[r], "delegatedCredentialsCache") = {Undef}

\* C20: with two attempts in flight and their callbacks interleaved in any order,
\* each attempt hands its own token to server.step, stores the principal of its
\* own server context on its own request and session, gives verify its own
\* request and principal, builds its NoUserError from its own principal, and
\* emits on its own request the one terminal action its own callback results
\* call for.
C20_AttemptsIndependent ==
    \A r \in Live :
        /\ Len(actions[r]) <= 1
        /\ Called(r, "step") => calls[r][2] = [fn |-> "step", args |-> <<Str(TokenOf(header[r]))>>]
        /\ Succeeded(stepErr[r]) =>
              /\ Prop(reqAttrs[r], "authenticatedPrincipal") = {server[r].username}
              /\ Prop(session[r].attrs, "authenticatedPrincipal") = {server[r].username}
              /\ calls[r][3].fn = "verify"
              /\ calls[r][3].args \in {<<server[r].username>>,
                                       <<[t |-> "object", id |-> r], server[r].username>>}
        /\ Failed(initErr[r]) => actions[r] = <<[op |-> "error", a |-> initErr[r], b |-> Undef]>>
        /\ Failed(stepErr[r]) => actions[r] = <<[op |-> "error", a |-> stepErr[r], b |-> Undef]>>
        /\ (Succeeded(stepErr[r]) /\ verifiedArgs[r] = NotYet) => actions[r] = << >>
        /\ verifiedArgs[r] # NotYet =>
              actions[r] = << IF ~IsAbsent(verifiedArgs[r].err)
                              THEN [op |-> "error", a |-> verifiedArgs[r].err, b |-> Undef]
                              ELSE IF ~IsAbsent(verifiedArgs[r].user)
                              THEN [op |-> "success", a |-> verifiedArgs[r].user,
                                    b |-> verifiedArgs[r].info]
                              ELSE IF ~IsAbsent(options[r].noUserRedirect)
                              THEN [op |-> "redirect", a |-> options[r].noUserRedirect,
                                    b |-> Undef]
                              ELSE [op |-> "fail",
                                    a |-> [t |-> "NoUserError",
                                           principal |-> server[r].username],
                                    b |-> Undef] >>

C20_Witness ==
    \E r, q \in Live :
        /\ r # q
        /\ header[r] # header[q]
        /\ Succeeded(stepErr[r]) /\ Succeeded(stepErr[q])
        /\ server[r].username # server[q].username
        /\ actions[r] = <<[op |-> "fail",
                           a |-> [t |-> "NoUserError", principal |-> server[r].username],
                           b |-> Undef]>>
        /\ actions[q] = <<[op |-> "fail",
                           a |-> [t |-> "NoUserError", principal |-> server[q].username],
                           b |-> Undef]>>
        /\ Prop(reqAttrs[r], "authenticatedPrincipal") = {server[r].username}
        /\ Prop(reqAttrs[q], "authenticatedPrincipal") = {server[q].username}

====
